---- MODULE Spec2Model ----
(***************************************************************************)
(* Object manager of the Vulkan object subsystem                           *)
(* (src/src/objects/manager/mod.rs).                                       *)
(*                                                                         *)
(* The module models the ObjectManager handle, its synchronization groups, *)
(* the resource object set builder and the built resource object sets.     *)
(* The sequencing done by the manager (create / abort / reduce / destroy)  *)
(* is translated from mod.rs.  The per-object create / abort / reduce      *)
(* operations, the Allocator, the SynchronizationGroup and the             *)
(* ResourceObjectSet live in sibling modules of the crate                  *)
(* (resource_object_set.rs, allocator.rs, synchronization_group.rs) and    *)
(* are modelled from their specified contract.                             *)
(*                                                                         *)
(* Slots and ids are 0-based as in the code; slot i of a batch is element  *)
(* i + 1 of the TLA+ sequence that models the boxed slice.                 *)
(***************************************************************************)
EXTENDS Naturals, Integers, Sequences, FiniteSets, TLC

\* ------------------------------------------------------------------ bounds
\* Longest batch a builder queues in the batch specification.
MaxSlots == 3
\* Longest batch a builder queues in the lifecycle specification.
MaxQueue == 1
\* Slots the two threads of the threads specification queue together.
MaxThreadSlots == 3
\* Number of things the caller keeps alive at the same time: synchronization
\* groups, the builder and resource object sets.
MaxLive == 2

\* The two ObjectManager instances of a process, in construction order.
Managers == {1, 2}
Groups == 1 .. MaxLive
Sets == 1 .. MaxLive

\* ------------------------------------------------------------- vocabulary
\* vk::Buffer::null() and friends: the null handle is the raw value 0.
NullHandle == 0
\* Option<Allocation>::None of a slot that owns no memory.
NoAlloc == 0
\* A description that has no dependency inside the batch.
NoDep == -1

Kinds == {"buffer", "buffer_view", "image", "image_view"}
IsView(kind) == kind \in {"buffer_view", "image_view"}
\* The kind of object a view kind has to reference.
ViewTarget(kind) == IF kind = "buffer_view" THEN "buffer" ELSE "image"

\* Points at which the creation of one object can fail: the device rejects
\* the object, the allocator has no memory, binding the memory fails.
Stages == {"object", "alloc", "bind"}

NoGroup == [state |-> "none"]
NoBuilder == [state |-> "none"]
NoSet == [state |-> "none"]

Ev(e, i, x, good) == [ev |-> e, slot |-> i, arg |-> x, ok |-> good]

\* The slots 0 .. n-1 in descending order: <<n-1, ..., 0>>.
Descending(n) == [k \in 1 .. n |-> n - k]
\* The slots 0 .. n-1 in ascending order: <<0, ..., n-1>>.
Ascending(n) == [k \in 1 .. n |-> k - 1]

Reverse(s) == [k \in 1 .. Len(s) |-> s[Len(s) + 1 - k]]

\* A handle the device hands out is distinct from null and from every handle
\* that is live on that device.
FreshHandle(live) == CHOOSE h \in 1 .. Cardinality(live) + 1 : h \notin live

\* ------------------------------------------------- per-object operations
\* The transient create-time state of one queued description.
Slot(kind, dep) == [kind |-> kind, dep |-> dep, handle |-> NullHandle, alloc |-> NoAlloc]

\* The execution context threaded through one manager call: the object
\* handles and allocations live on the manager's device and the calls made.
Ctx(obj, alloc) == [obj |-> obj, alloc |-> alloc, tr |-> <<>>]

Log(ctx, e) == [ctx EXCEPT !.tr = Append(@, e)]

\* Whether the dependency of slot i is usable: it names a slot of the batch
\* created strictly before slot i, of the kind the view is a view of.
DependencyValid(objects, i) ==
    LET cur == objects[i + 1]
    IN /\ cur.dep \in 0 .. (i - 1)
       /\ objects[cur.dep + 1].kind = ViewTarget(cur.kind)

\* The device constructs the object of slot i and hands out the handle h.
VkCreate(objects, i, ctx, h) ==
    [objects |-> [objects EXCEPT ![i + 1].handle = h],
     ctx |-> Log([ctx EXCEPT !.obj = @ \cup {h}], Ev("vk_create", i, h, TRUE)),
     ok |-> TRUE]

\* The allocator hands out the allocation a for the object of slot i.
Allocate(r, i, a) ==
    [objects |-> [r.objects EXCEPT ![i + 1].alloc = a],
     ctx |-> Log([r.ctx EXCEPT !.alloc = @ \cup {a}], Ev("allocate", i, a, TRUE)),
     ok |-> TRUE]

\* The step that follows fails: what was acquired so far stays in the slot.
Failed(r) == [r EXCEPT !.ok = FALSE]

\* create of a buffer or an image: construct the object, allocate its memory,
\* bind the memory.  A failure keeps what was acquired before it in the slot.
CreateMemoryObject(objects, i, ctx, inj) ==
    IF inj = "object"
    THEN [objects |-> objects, ctx |-> ctx, ok |-> FALSE]
    ELSE IF inj = "alloc"
    THEN Failed(VkCreate(objects, i, ctx, FreshHandle(ctx.obj)))
    ELSE IF inj = "bind"
    THEN Failed(Allocate(VkCreate(objects, i, ctx, FreshHandle(ctx.obj)), i,
                         FreshHandle(ctx.alloc)))
    ELSE Allocate(VkCreate(objects, i, ctx, FreshHandle(ctx.obj)), i,
                  FreshHandle(ctx.alloc))

\* A view reads the handle of its dependency through the splitter; the read
\* is sound when the dependency has been created.
ReadDependency(objects, i, ctx) ==
    Log(ctx, Ev("read", i, objects[i + 1].dep,
                objects[objects[i + 1].dep + 1].handle # NullHandle))

\* create of a buffer view or an image view: check the dependency, read the
\* handle of the dependency through the splitter, construct the view.
CreateView(objects, i, ctx, inj) ==
    IF ~DependencyValid(objects, i)
    THEN [objects |-> objects, ctx |-> ctx, ok |-> FALSE]
    ELSE IF inj = "object"
    THEN [objects |-> objects, ctx |-> ReadDependency(objects, i, ctx), ok |-> FALSE]
    ELSE VkCreate(objects, i, ReadDependency(objects, i, ctx), FreshHandle(ctx.obj))

\* ResourceObjectCreateMetadata::create on slot i, the other slots read-only.
SlotCreate(objects, i, ctx, inj) ==
    IF IsView(objects[i + 1].kind)
    THEN CreateView(objects, i, ctx, inj)
    ELSE CreateMemoryObject(objects, i, ctx, inj)

\* abort destroys the object the slot had constructed, if any.
AbortObject(cur, i, ctx) ==
    IF cur.handle = NullHandle THEN ctx
    ELSE Log([ctx EXCEPT !.obj = @ \ {cur.handle}],
             Ev("vk_destroy", i, cur.handle, cur.handle \in ctx.obj))

\* abort frees the allocation the slot had acquired, if any.
AbortMemory(cur, i, ctx) ==
    IF cur.alloc = NoAlloc THEN ctx
    ELSE Log([ctx EXCEPT !.alloc = @ \ {cur.alloc}],
             Ev("free", i, cur.alloc, cur.alloc \in ctx.alloc))

\* ResourceObjectCreateMetadata::abort on slot i: release what the slot had
\* acquired; a slot that acquired nothing releases nothing.
SlotAbort(objects, i, ctx) ==
    AbortMemory(objects[i + 1], i,
                AbortObject(objects[i + 1], i, Log(ctx, Ev("abort", i, 0, TRUE))))

\* ResourceObjectCreateMetadata::reduce: the data to retain and the
\* allocation to retain (NoAlloc for none).
SlotReduce(slot) ==
    [data |-> [kind |-> slot.kind, handle |-> slot.handle], alloc |-> slot.alloc]

\* ResourceObjectData::destroy of the object built from slot i.
DataDestroy(data, i, ctx) ==
    Log([ctx EXCEPT !.obj = @ \ {data.handle}],
        Ev("destroy", i, data.handle, data.handle \in ctx.obj))

\* Allocator::free of the allocation at position k of a set's allocations.
AllocatorFree(a, k, ctx) ==
    Log([ctx EXCEPT !.alloc = @ \ {a}], Ev("free", k, a, a \in ctx.alloc))

\* ------------------------------------------------ ObjectManagerImpl loops
\* A failure injected into one create call: the slot and the stage.
NoFailure == [at |-> -1, stage |-> "none"]

RECURSIVE CreateFrom(_, _, _, _)
\* One iteration of the loop, given the outcome r of create on slot i: an
\* error leaves the loop (the `?`), success moves on to slot i + 1.
CreateStep(r, i, inj) ==
    IF ~r.ok
    THEN [objects |-> r.objects,
          ctx |-> Log(r.ctx, Ev("create", i, r.objects[i + 1].handle, FALSE)),
          ok |-> FALSE, failedAt |-> i]
    ELSE CreateFrom(r.objects, i + 1,
                    Log(r.ctx, Ev("create", i, r.objects[i + 1].handle, TRUE)), inj)

CreateFrom(objects, i, ctx, inj) ==
    IF i >= Len(objects)
    THEN [objects |-> objects, ctx |-> ctx, ok |-> TRUE, failedAt |-> -1]
    ELSE CreateStep(SlotCreate(objects, i, ctx, IF inj.at = i THEN inj.stage ELSE "none"),
                    i, inj)

\* Variant: the error of create is swallowed and Ok(()) is returned.
create_resource_objects_swallow_errors(objects, ctx, inj) ==
    [CreateFrom(objects, 0, ctx, inj) EXCEPT !.ok = TRUE]

\* Variant: the loop goes on with the next slot after a failed create.
RECURSIVE CreateAll(_, _, _, _, _)
CreateAllStep(r, i, inj, failedAt) ==
    CreateAll(r.objects, i + 1,
              Log(r.ctx, Ev("create", i, r.objects[i + 1].handle, r.ok)), inj,
              IF ~r.ok /\ failedAt = -1 THEN i ELSE failedAt)

CreateAll(objects, i, ctx, inj, failedAt) ==
    IF i >= Len(objects)
    THEN [objects |-> objects, ctx |-> ctx, ok |-> failedAt = -1, failedAt |-> failedAt]
    ELSE CreateAllStep(SlotCreate(objects, i, ctx, IF inj.at = i THEN inj.stage ELSE "none"),
                       i, inj, failedAt)

create_resource_objects_continue(objects, ctx, inj) ==
    CreateAll(objects, 0, ctx, inj, -1)

\* Variant: the loop runs over 0..objects.len() - 1 and misses the last slot.
create_resource_objects_skip_last(objects, ctx, inj) ==
    LET r == CreateFrom(SubSeq(objects, 1, Len(objects) - 1), 0, ctx, inj)
    IN IF Len(objects) = 0 THEN r
       ELSE [r EXCEPT !.objects = Append(@, objects[Len(objects)])]

\* for i in 0..objects.len() { current.create(..)? }
create_resource_objects(objects, ctx, inj) == CreateFrom(objects, 0, ctx, inj)

RECURSIVE AbortFrom(_, _, _)
AbortFrom(objects, i, ctx) ==
    IF i < 0 THEN ctx
    ELSE AbortFrom(objects, i - 1, SlotAbort(objects, i, ctx))

\* Variant: the batch is aborted front to back (the .rev() is missing).
RECURSIVE AbortUp(_, _, _)
AbortUp(objects, i, ctx) ==
    IF i >= Len(objects) THEN ctx
    ELSE AbortUp(objects, i + 1, SlotAbort(objects, i, ctx))

abort_resource_objects_forward(objects, ctx) == AbortUp(objects, 0, ctx)

\* Variant: only the slots that hold an object or an allocation are aborted.
RECURSIVE AbortHeld(_, _, _)
AbortHeld(objects, i, ctx) ==
    IF i < 0 THEN ctx
    ELSE AbortHeld(objects, i - 1,
                   IF objects[i + 1].handle = NullHandle /\ objects[i + 1].alloc = NoAlloc
                   THEN ctx ELSE SlotAbort(objects, i, ctx))

abort_resource_objects_held_only(objects, ctx) ==
    AbortHeld(objects, Len(objects) - 1, ctx)

\* for object in objects.iter_mut().rev() { object.abort(..) }
abort_resource_objects(objects, ctx) == AbortFrom(objects, Len(objects) - 1, ctx)

RECURSIVE ReduceFrom(_, _, _, _, _)
ReduceFrom(objects, i, data, allocations, ctx) ==
    IF i >= Len(objects)
    THEN [data |-> data, allocations |-> allocations, ctx |-> ctx]
    ELSE LET r == SlotReduce(objects[i + 1])
         IN ReduceFrom(objects, i + 1, Append(data, r.data),
                       IF r.alloc # NoAlloc THEN Append(allocations, r.alloc)
                                            ELSE allocations,
                       Log(ctx, Ev("reduce", i, r.data.handle, TRUE)))

\* Variant: the data is collected back to front.
reduce_resource_objects_reversed(objects, ctx) ==
    LET r == ReduceFrom(objects, 0, <<>>, <<>>, ctx)
    IN [r EXCEPT !.data = Reverse(@)]

\* Variant: every allocation is inserted at the front of the allocations.
reduce_resource_objects_allocations_reversed(objects, ctx) ==
    [ReduceFrom(objects, 0, <<>>, <<>>, ctx) EXCEPT !.allocations = Reverse(@)]

\* for object in objects.into_vec() { data.push(d); allocations.push(alloc) }
reduce_resource_objects(objects, ctx) == ReduceFrom(objects, 0, <<>>, <<>>, ctx)

RECURSIVE DestroyFrom(_, _, _)
DestroyFrom(data, i, ctx) ==
    IF i < 0 THEN ctx
    ELSE DestroyFrom(data, i - 1, DataDestroy(data[i + 1], i, ctx))

RECURSIVE FreeFrom(_, _, _)
FreeFrom(allocations, k, ctx) ==
    IF k >= Len(allocations) THEN ctx
    ELSE FreeFrom(allocations, k + 1, AllocatorFree(allocations[k + 1], k, ctx))

\* Variant: the objects are destroyed and the allocations are dropped
\* without being handed back to the Allocator.
destroy_resource_objects_no_free(data, allocations, ctx) ==
    DestroyFrom(data, Len(data) - 1, ctx)

\* Variant: the objects are destroyed in build order (the .rev() is missing).
RECURSIVE DestroyUp(_, _, _)
DestroyUp(data, i, ctx) ==
    IF i >= Len(data) THEN ctx
    ELSE DestroyUp(data, i + 1, DataDestroy(data[i + 1], i, ctx))

destroy_resource_objects_forward(data, allocations, ctx) ==
    FreeFrom(allocations, 0, DestroyUp(data, 0, ctx))

\* objects destroyed in reverse, then the allocations freed front to back.
destroy_resource_objects(data, allocations, ctx) ==
    FreeFrom(allocations, 0, DestroyFrom(data, Len(data) - 1, ctx))

\* Variant: the result of create_resource_objects is not inspected.
build_resource_objects_ignore_error(objects, ctx, inj) ==
    LET c == create_resource_objects(objects, ctx, inj)
        r == reduce_resource_objects(c.objects, c.ctx)
    IN [ok |-> TRUE, failedAt |-> c.failedAt, data |-> r.data,
        allocations |-> r.allocations, ctx |-> r.ctx]

\* Variant: the panic! after the abort pass is missing and the aborted batch
\* is reduced.
build_resource_objects_no_panic(objects, ctx, inj) ==
    LET c == create_resource_objects(objects, ctx, inj)
        r == reduce_resource_objects(
                 c.objects,
                 IF c.ok THEN c.ctx ELSE abort_resource_objects(c.objects, c.ctx))
    IN [ok |-> TRUE, failedAt |-> c.failedAt, data |-> r.data,
        allocations |-> r.allocations, ctx |-> r.ctx]

\* ObjectManager::build_resource_objects: create; on error abort and panic;
\* otherwise reduce.  ok = FALSE stands for the panic.
build_resource_objects(objects, ctx, inj) ==
    LET c == create_resource_objects(objects, ctx, inj)
    IN IF ~c.ok
       THEN [ok |-> FALSE, failedAt |-> c.failedAt, data |-> <<>>,
             allocations |-> <<>>, ctx |-> abort_resource_objects(c.objects, c.ctx)]
       ELSE LET r == reduce_resource_objects(c.objects, c.ctx)
            IN [ok |-> TRUE, failedAt |-> -1, data |-> r.data,
                allocations |-> r.allocations, ctx |-> r.ctx]

VARIABLES
    mgr,       \* per ObjectManager: state, uuid, Arc strong count, caller handles
    nextUuid,  \* process wide id generator behind UUID::new()
    grp,       \* per synchronization group slot: manager, semaphore, counts
    builder,   \* the ResourceObjectSetBuilder the caller holds, if any
    sets,      \* per resource object set slot: group, data, allocations
    objLive,   \* per manager: object handles live on its device
    allocLive, \* per manager: allocations live in its Allocator
    semLive,   \* per manager: semaphores live on its device
    last,      \* the operation executed last and its outcome
    trace,     \* calls made by the operation executed last, in order
    api,       \* the process behind the C API: state, instance, frame, last call
    threads    \* per thread that builds its own batch: position and local state

vars == <<mgr, nextUuid, grp, builder, sets, objLive, allocLive, semLive, last, trace,
          api, threads>>

\* The C API has not been entered: no instance, no frame, no call made.
ApiIdle ==
    [proc |-> "running", b4d |-> FALSE, recorder |-> FALSE,
     call |-> [fn |-> "none", nulls |-> {}, end |-> "none", tr |-> <<>>]]

\* No thread has been started.
NoThreads == <<>>

\* ------------------------------------------------------- shared handles
\* The part of the state a handle drop can change, with the calls it makes.
World == [mgr |-> mgr, grp |-> grp, semLive |-> semLive, tr |-> <<>>]

NoManager == [state |-> "none", uuid |-> 0, refs |-> 0, handles |-> 0]

\* UUID::new(): the next value of the process wide generator.
UuidNew(next) == next

\* Drop of one Arc<ObjectManagerImpl>: the implementation (device reference
\* and Allocator) is torn down when the strong count reaches zero.
ReleaseManager(w, m) ==
    LET refs == w.mgr[m].refs - 1
    IN [w EXCEPT !.mgr[m].refs = refs,
                 !.mgr[m].state = IF refs = 0 THEN "dead" ELSE @]

\* What the device answers to create_semaphore: the semaphore, or an error
\* (out of host or device memory).
SemaphoreAnswers == {"success", "error"}

\* Variant: every group is given the same semaphore.
create_group_semaphore_shared(live, answer) ==
    IF answer = "success" THEN [ok |-> TRUE, sem |-> 1]
    ELSE [ok |-> FALSE, sem |-> NullHandle]

\* ObjectManagerImpl::create_group_semaphore: device.create_semaphore and
\* unwrap, which panics (ok = FALSE) on the error answer.
create_group_semaphore(live, answer) ==
    IF answer = "success" THEN [ok |-> TRUE, sem |-> FreshHandle(live)]
    ELSE [ok |-> FALSE, sem |-> NullHandle]

\* Variant: the semaphore is never handed back to the device.
destroy_group_semaphore_skipped(w, m, sem) == w

\* ObjectManager::destroy_group_semaphore: device.destroy_semaphore.  The
\* call is sound when the semaphore is live and the manager not torn down.
destroy_group_semaphore(w, m, sem) ==
    [w EXCEPT !.semLive[m] = @ \ {sem},
              !.tr = Append(@, Ev("destroy_semaphore", m, sem,
                                  sem \in w.semLive[m] /\ w.mgr[m].state = "alive"))]

\* Drop of one handle to synchronization group g: the last drop destroys the
\* semaphore through the owning manager and then drops the group's manager.
ReleaseGroup(w, g) ==
    LET refs == w.grp[g].refs - 1
        m == w.grp[g].mgr
    IN IF refs > 0
       THEN [w EXCEPT !.grp[g].refs = refs]
       ELSE ReleaseManager(
                [destroy_group_semaphore(w, m, w.grp[g].sem) EXCEPT !.grp[g] = NoGroup], m)

\* PartialEq for ObjectManager: self.0.uuid.eq(&other.0.uuid).
ManagerEq(a, b) == mgr[a].uuid = mgr[b].uuid

\* PartialEq for SynchronizationGroup: same semaphore under the same manager.
GroupEq(g, h) == grp[g].sem = grp[h].sem /\ ManagerEq(grp[g].mgr, grp[h].mgr)

\* Variant: the ownership check is left out.
GroupMismatch_unchecked(m, g) == FALSE

\* synchronization_group.get_manager() != self
GroupMismatch(m, g) == ~ManagerEq(grp[g].mgr, m)

\* ResourceObjectSet::get_*_handle(id): the handle of the object with that id.
GetHandle(s, id) == sets[s].data[id + 1].handle

Alive(x) == x.state # "none"

FreeManagers == {m \in Managers : mgr[m].state = "none"}
FreeGroups == {g \in Groups : ~Alive(grp[g])}
FreeSets == {s \in Sets : ~Alive(sets[s])}
Least(S) == CHOOSE x \in S : \A y \in S : x <= y

\* The handles the caller holds to the managers of S beyond the first handle
\* to each: the clones.
RECURSIVE Clones(_)
Clones(S) ==
    IF S = {} THEN 0
    ELSE (IF mgr[Least(S)].handles > 1 THEN mgr[Least(S)].handles - 1 ELSE 0)
             + Clones(S \ {Least(S)})

\* What the caller keeps alive.
LiveCount ==
    Cardinality(Groups \ FreeGroups) + Cardinality(Sets \ FreeSets)
        + (IF builder.state = "open" THEN 1 ELSE 0) + Clones(Managers)

\* The operation executed last: its name, the manager, group and set it ran
\* on, the batch it was given, the slot whose create failed (-1 for none),
\* whether it returned (FALSE: it panicked) and the id it returned; owner is
\* the manager the group belongs to, data and allocations what a build
\* returned or a destroy was given.
Op(name, m, g, s, batch, failedAt, good, id) ==
    [op |-> name, mgr |-> m, group |-> g, set |-> s, batch |-> batch,
     failedAt |-> failedAt, ok |-> good, id |-> id,
     owner |-> IF g = 0 THEN 0 ELSE IF Alive(grp[g]) THEN grp[g].mgr ELSE m,
     data |-> <<>>, allocations |-> <<>>]

\* ------------------------------------------------------------- actions
Init ==
    /\ mgr = [m \in Managers |-> NoManager]
    /\ nextUuid = 1
    /\ grp = [g \in Groups |-> NoGroup]
    /\ builder = NoBuilder
    /\ sets = [s \in Sets |-> NoSet]
    /\ objLive = [m \in Managers |-> {}]
    /\ allocLive = [m \in Managers |-> {}]
    /\ semLive = [m \in Managers |-> {}]
    /\ last = [op |-> "init", mgr |-> 0, group |-> 0, set |-> 0, batch |-> <<>>,
               failedAt |-> -1, ok |-> TRUE, id |-> 0, owner |-> 0,
               data |-> <<>>, allocations |-> <<>>]
    /\ trace = <<>>
    /\ api = ApiIdle
    /\ threads = NoThreads

\* ObjectManager::new(device)
ObjectManagerNew(m) ==
    /\ FreeManagers # {}
    /\ m = Least(FreeManagers)
    /\ mgr' = [mgr EXCEPT ![m] = [state |-> "alive", uuid |-> UuidNew(nextUuid),
                                  refs |-> 1, handles |-> 1]]
    /\ nextUuid' = nextUuid + 1
    /\ last' = Op("new", m, 0, 0, <<>>, -1, TRUE, 0)
    /\ trace' = <<>>
    /\ UNCHANGED <<grp, builder, sets, objLive, allocLive, semLive>>
    /\ UNCHANGED <<api, threads>>

\* Variant: the clone is a handle to another implementation.
clone_other(m) == CHOOSE x \in Managers : x # m

\* Self( self.0.clone() ): the implementation the new handle points at.
clone(m) == m

\* ObjectManager::clone on a handle to manager m.
ObjectManagerClone(m) ==
    /\ mgr[m].handles > 0
    /\ LiveCount < MaxLive
    /\ mgr' = [mgr EXCEPT ![clone(m)].refs = @ + 1, ![clone(m)].handles = @ + 1]
    /\ last' = Op("clone", m, 0, 0, <<>>, -1, TRUE, clone(m))
    /\ trace' = <<>>
    /\ UNCHANGED <<nextUuid, grp, builder, sets, objLive, allocLive, semLive>>
    /\ UNCHANGED <<api, threads>>

\* drop(manager): the caller drops its handle to manager m.
ObjectManagerDrop(m) ==
    /\ mgr[m].handles > 0
    /\ LET w == ReleaseManager([World EXCEPT !.mgr[m].handles = @ - 1], m)
       IN mgr' = w.mgr
    /\ last' = Op("drop_manager", m, 0, 0, <<>>, -1, TRUE, 0)
    /\ trace' = <<>>
    /\ UNCHANGED <<nextUuid, grp, builder, sets, objLive, allocLive, semLive>>
    /\ UNCHANGED <<api, threads>>

\* Variant: the group is built without a clone of the manager handle, so it
\* does not keep the manager alive.
create_synchronization_group_no_clone(m) ==
    /\ mgr[m].handles > 0
    /\ LiveCount < MaxLive
    /\ \E r \in {create_group_semaphore(semLive[m], answer) : answer \in SemaphoreAnswers} :
          IF r.ok
          THEN /\ grp' = [grp EXCEPT ![Least(FreeGroups)] =
                              [state |-> "alive", mgr |-> m, sem |-> r.sem,
                               refs |-> 1, handles |-> 1]]
               /\ semLive' = [semLive EXCEPT ![m] = @ \cup {r.sem}]
               /\ mgr' = mgr
               /\ last' = Op("create_synchronization_group", m, Least(FreeGroups), 0,
                             <<>>, -1, TRUE, 0)
               /\ trace' = <<Ev("create_semaphore", m, r.sem, TRUE)>>
          ELSE /\ mgr' = mgr
               /\ last' = Op("create_synchronization_group", m, 0, 0, <<>>, -1, FALSE, 0)
               /\ trace' = <<Ev("create_semaphore", m, NullHandle, FALSE)>>
               /\ UNCHANGED <<grp, semLive>>
    /\ UNCHANGED <<nextUuid, builder, sets, objLive, allocLive>>
    /\ UNCHANGED <<api, threads>>

\* ObjectManager::create_synchronization_group: the manager handle is cloned,
\* then the semaphore is created.  When create_group_semaphore panics no group
\* is made and unwinding drops the clone.
create_synchronization_group(m) ==
    /\ mgr[m].handles > 0
    /\ LiveCount < MaxLive
    /\ \E r \in {create_group_semaphore(semLive[m], answer) : answer \in SemaphoreAnswers} :
          IF r.ok
          THEN /\ grp' = [grp EXCEPT ![Least(FreeGroups)] =
                              [state |-> "alive", mgr |-> m, sem |-> r.sem,
                               refs |-> 1, handles |-> 1]]
               /\ semLive' = [semLive EXCEPT ![m] = @ \cup {r.sem}]
               /\ mgr' = [mgr EXCEPT ![m].refs = @ + 1]
               /\ last' = Op("create_synchronization_group", m, Least(FreeGroups), 0,
                             <<>>, -1, TRUE, 0)
               /\ trace' = <<Ev("create_semaphore", m, r.sem, TRUE)>>
          ELSE /\ mgr' = ReleaseManager([World EXCEPT !.mgr[m].refs = @ + 1], m).mgr
               /\ last' = Op("create_synchronization_group", m, 0, 0, <<>>, -1, FALSE, 0)
               /\ trace' = <<Ev("create_semaphore", m, NullHandle, FALSE)>>
               /\ UNCHANGED <<grp, semLive>>
    /\ UNCHANGED <<nextUuid, builder, sets, objLive, allocLive>>
    /\ UNCHANGED <<api, threads>>

\* drop(group): the caller drops one of its handles to group g.
GroupDrop(g) ==
    /\ Alive(grp[g])
    /\ grp[g].handles > 0
    /\ LET w == ReleaseGroup([World EXCEPT !.grp[g].handles = @ - 1], g)
       IN /\ mgr' = w.mgr
          /\ grp' = w.grp
          /\ semLive' = w.semLive
          /\ trace' = w.tr
    /\ last' = Op("drop_group", grp[g].mgr, g, 0, <<>>, -1, TRUE, 0)
    /\ UNCHANGED <<nextUuid, builder, sets, objLive, allocLive>>
    /\ UNCHANGED <<api, threads>>

\* ObjectManager::create_resource_object_set on manager m with group g.  The
\* caller passes its handle to the group (moved = TRUE) or a clone of it.  A
\* group of another manager panics before a builder exists: the handle passed
\* is dropped while the panic unwinds.
create_resource_object_set(m, g, moved) ==
    /\ mgr[m].handles > 0
    /\ Alive(grp[g])
    /\ grp[g].handles > 0
    /\ builder = NoBuilder
    /\ LiveCount < MaxLive
    /\ LET passed == IF moved
                     THEN [World EXCEPT !.grp[g].handles = @ - 1]
                     ELSE [World EXCEPT !.grp[g].refs = @ + 1]
       IN IF GroupMismatch(m, g)
          THEN LET w == ReleaseGroup(passed, g)
               IN /\ mgr' = w.mgr
                  /\ grp' = w.grp
                  /\ semLive' = w.semLive
                  /\ trace' = w.tr
                  /\ builder' = builder
                  /\ last' = Op("create_resource_object_set", m, g, 0, <<>>, -1, FALSE, 0)
          ELSE /\ grp' = passed.grp
               /\ builder' = [state |-> "open", group |-> g, queue |-> <<>>]
               /\ trace' = <<>>
               /\ last' = Op("create_resource_object_set", m, g, 0, <<>>, -1, TRUE, 0)
               /\ UNCHANGED <<mgr, semLive>>
    /\ UNCHANGED <<nextUuid, sets, objLive, allocLive>>
    /\ UNCHANGED <<api, threads>>

\* ResourceObjectSetBuilder::add_*: append the description; the id returned
\* is the ordinal position of the description in the batch.  cap bounds the
\* length of the batch.
BuilderAdd(kind, dep, cap) ==
    /\ builder.state = "open"
    /\ Len(builder.queue) < cap
    /\ builder' = [builder EXCEPT !.queue = Append(@, Slot(kind, dep))]
    /\ last' = Op("add", grp[builder.group].mgr, builder.group, 0,
                  builder'.queue, -1, TRUE, Len(builder.queue))
    /\ trace' = <<>>
    /\ UNCHANGED <<mgr, nextUuid, grp, sets, objLive, allocLive, semLive>>
    /\ UNCHANGED <<api, threads>>

\* The ids a caller can pass as the dependency of a view: any id of a batch
\* of the longest length, whether or not this builder handed it out yet.
add_buffer(cap) == BuilderAdd("buffer", NoDep, cap)
add_image(cap) == BuilderAdd("image", NoDep, cap)
add_buffer_view(cap) == \E dep \in 0 .. cap - 1 : BuilderAdd("buffer_view", dep, cap)
add_image_view(cap) == \E dep \in 0 .. cap - 1 : BuilderAdd("image_view", dep, cap)

\* The failures the device and the allocator can answer a batch with.
Failures(queue) ==
    {NoFailure} \cup
    {[at |-> i, stage |-> st] : i \in 0 .. Len(queue) - 1, st \in Stages}

Applicable(queue, inj) ==
    inj.at >= 0 /\ IsView(queue[inj.at + 1].kind) => inj.stage = "object"

\* ResourceObjectSetBuilder::build: hands the batch to the manager of the
\* builder's group.  On success the set takes the builder's group handle; on
\* panic the builder, and with it the group handle, is dropped by unwinding.
BuilderBuild ==
    /\ builder.state = "open"
    /\ \E inj \in Failures(builder.queue) :
         /\ Applicable(builder.queue, inj)
         /\ LET g == builder.group
                m == grp[g].mgr
                s == Least(FreeSets)
                r == build_resource_objects(builder.queue,
                                            Ctx(objLive[m], allocLive[m]), inj)
                w == IF r.ok THEN World ELSE ReleaseGroup(World, g)
            IN /\ objLive' = [objLive EXCEPT ![m] = r.ctx.obj]
               /\ allocLive' = [allocLive EXCEPT ![m] = r.ctx.alloc]
               /\ sets' = IF r.ok
                          THEN [sets EXCEPT ![s] = [state |-> "alive", group |-> g,
                                   data |-> r.data, allocations |-> r.allocations]]
                          ELSE sets
               /\ mgr' = w.mgr
               /\ grp' = w.grp
               /\ semLive' = w.semLive
               /\ trace' = r.ctx.tr \o w.tr
               /\ last' = [Op("build", m, g, IF r.ok THEN s ELSE 0,
                                builder.queue, r.failedAt, r.ok, 0)
                               EXCEPT !.data = r.data, !.allocations = r.allocations]
    /\ builder' = NoBuilder
    /\ UNCHANGED nextUuid
    /\ UNCHANGED <<api, threads>>

\* drop(builder): the builder is dropped without being built.
BuilderDrop ==
    /\ builder.state = "open"
    /\ LET w == ReleaseGroup(World, builder.group)
       IN /\ mgr' = w.mgr
          /\ grp' = w.grp
          /\ semLive' = w.semLive
          /\ trace' = w.tr
    /\ last' = Op("drop_builder", grp[builder.group].mgr, builder.group, 0,
                  builder.queue, -1, TRUE, 0)
    /\ builder' = NoBuilder
    /\ UNCHANGED <<nextUuid, sets, objLive, allocLive>>
    /\ UNCHANGED <<api, threads>>

\* drop(set): ObjectManager::destroy_resource_objects on the set's data and
\* allocations, then the set's group handle is dropped.
SetDrop(s) ==
    /\ Alive(sets[s])
    /\ LET g == sets[s].group
           m == grp[g].mgr
           c == destroy_resource_objects(sets[s].data, sets[s].allocations,
                                         Ctx(objLive[m], allocLive[m]))
           w == ReleaseGroup(World, g)
       IN /\ objLive' = [objLive EXCEPT ![m] = c.obj]
          /\ allocLive' = [allocLive EXCEPT ![m] = c.alloc]
          /\ mgr' = w.mgr
          /\ grp' = w.grp
          /\ semLive' = w.semLive
          /\ trace' = c.tr \o w.tr
          /\ last' = [Op("destroy", m, g, s, <<>>, -1, TRUE, 0)
                         EXCEPT !.data = sets[s].data,
                                !.allocations = sets[s].allocations]
    /\ sets' = [sets EXCEPT ![s] = NoSet]
    /\ UNCHANGED <<nextUuid, builder>>
    /\ UNCHANGED <<api, threads>>

Next ==
    \/ \E m \in Managers : ObjectManagerNew(m)
    \/ \E m \in Managers : ObjectManagerClone(m)
    \/ \E m \in Managers : ObjectManagerDrop(m)
    \/ \E m \in Managers : create_synchronization_group(m)
    \/ \E g \in Groups : GroupDrop(g)
    \/ \E m \in Managers, g \in Groups, moved \in BOOLEAN :
          create_resource_object_set(m, g, moved)
    \/ add_buffer(MaxQueue)
    \/ BuilderBuild
    \/ BuilderDrop
    \/ \E s \in Sets : SetDrop(s)

\* The lifecycle specification: managers, groups, the builder and sets are
\* constructed, shared and dropped in any order.
Spec == Init /\ [][Next]_vars

\* The batch specification: on one manager and one group, a builder queues
\* any batch of up to MaxSlots descriptions, builds it under any failure and
\* the built set is dropped.
InitBatch ==
    /\ mgr = [m \in Managers |->
                IF m = 1 THEN [state |-> "alive", uuid |-> 1, refs |-> 2, handles |-> 1]
                         ELSE NoManager]
    /\ nextUuid = 2
    /\ grp = [g \in Groups |->
                IF g = 1 THEN [state |-> "alive", mgr |-> 1, sem |-> 1,
                               refs |-> 1, handles |-> 0]
                         ELSE NoGroup]
    /\ builder = [state |-> "open", group |-> 1, queue |-> <<>>]
    /\ sets = [s \in Sets |-> NoSet]
    /\ objLive = [m \in Managers |-> {}]
    /\ allocLive = [m \in Managers |-> {}]
    /\ semLive = [m \in Managers |-> IF m = 1 THEN {1} ELSE {}]
    /\ last = [op |-> "create_resource_object_set", mgr |-> 1, group |-> 1,
               set |-> 0, batch |-> <<>>, failedAt |-> -1, ok |-> TRUE, id |-> 0,
               owner |-> 1, data |-> <<>>, allocations |-> <<>>]
    /\ trace = <<>>
    /\ api = ApiIdle
    /\ threads = NoThreads

NextBatch ==
    \/ add_buffer(MaxSlots)
    \/ add_image(MaxSlots)
    \/ add_buffer_view(MaxSlots)
    \/ add_image_view(MaxSlots)
    \/ BuilderBuild
    \/ \E s \in Sets : SetDrop(s)

SpecBatch == InitBatch /\ [][NextBatch]_vars

\* ------------------------------------------------------------------ C API
\* The foreign entry points of src/src/c_api.rs.  A call passes raw pointers;
\* nulls is the set of its pointer parameters that are null.  The operations
\* of Blaze4D and PassRecorder behind the entry points either return or panic.
AEv(e, x) == [ev |-> e, arg |-> x]

CoreOutcomes == {"return", "panic"}

\* The pointers read by CMeshData::to_mesh_data.
MeshPointers == {"vertex_data_ptr", "index_data_ptr"}

\* log::error!(..); exit(1);
LogAndExit(tr, msg) ==
    [end |-> "exit", tr |-> tr \o <<AEv("log_error", msg), AEv("exit", 1)>>]

\* log::error!(..); panic!();
LogAndPanic(tr, msg) ==
    [end |-> "panic", tr |-> tr \o <<AEv("log_error", msg), AEv("panic", msg)>>]

\* Variant: the data pointers are handed on without being inspected.
to_mesh_data_unchecked(nulls) == [end |-> "value", tr |-> <<>>]

\* CMeshData::to_mesh_data: a null vertex or index data pointer panics.
to_mesh_data(nulls) ==
    IF "vertex_data_ptr" \in nulls THEN LogAndPanic(<<>>, "vertex_data_ptr")
    ELSE IF "index_data_ptr" \in nulls THEN LogAndPanic(<<>>, "index_data_ptr")
    ELSE [end |-> "value", tr |-> <<>>]

\* The position in checks of the first pointer found null by the checks at
\* the head of an entry point, in the order the code makes them; 0 for none.
FirstNull(checks, nulls) ==
    IF \E k \in 1 .. Len(checks) : checks[k] \in nulls
    THEN Least({k \in 1 .. Len(checks) : checks[k] \in nulls})
    ELSE 0

\* The operation behind entry point fn, reached when r ended in a value.
CoreCall(fn, core, r) ==
    IF r.end # "value" THEN r
    ELSE IF core = "panic"
    THEN [end |-> "panic", tr |-> r.tr \o <<AEv("core", fn), AEv("panic", fn)>>]
    ELSE [end |-> "value", tr |-> Append(r.tr, AEv("core", fn))]

\* The outcome r of a step of the body, after the body has logged pre.
Logged(pre, r) == [r EXCEPT !.tr = pre \o @]

\* The closure handed to catch_unwind: the null checks that exit, what the
\* body logs once the checks have passed (pre), the mesh conversion of the
\* entry points that take a CMeshData, the core operation.
Closure(fn, checks, pre, mesh, nulls, core) ==
    IF FirstNull(checks, nulls) # 0
    THEN LogAndExit(<<>>, checks[FirstNull(checks, nulls)])
    ELSE CoreCall(fn, core,
                  Logged(pre, IF mesh THEN to_mesh_data(nulls)
                                      ELSE [end |-> "value", tr |-> <<>>]))

\* std::panic::catch_unwind: a panic of the closure stops unwinding here and
\* becomes Err; a process that exited inside the closure is gone.
catch_unwind(r) ==
    IF r.end = "panic" THEN [end |-> "err", tr |-> Append(r.tr, AEv("catch", 0))]
    ELSE r

\* Variant: the panic handler hands a default value back to the caller.
unwrap_or_else_default(msg, r) ==
    IF r.end \in {"err", "value"}
    THEN [end |-> "return", tr |-> Append(r.tr, AEv("return", msg))]
    ELSE r

\* .unwrap_or_else(|_| { log::error!("panic in ..."); exit(1); })
unwrap_or_else(msg, r) ==
    IF r.end = "err" THEN LogAndExit(r.tr, msg)
    ELSE IF r.end = "value"
    THEN [end |-> "return", tr |-> Append(r.tr, AEv("return", msg))]
    ELSE r

\* One call of entry point fn; msg is the name its panic handler logs.
EntryPoint(fn, msg, checks, pre, mesh, nulls, core) ==
    unwrap_or_else(msg, catch_unwind(Closure(fn, checks, pre, mesh, nulls, core)))

\* The process after the call.
ApiAfter(fn, nulls, r) ==
    [api EXCEPT !.proc = IF r.end = "exit" THEN "exited" ELSE @,
                !.call = [fn |-> fn, nulls |-> nulls, end |-> r.end, tr |-> r.tr]]

\* What every entry point shares: the process is running, the null pointers
\* are among its parameters, a non-null instance pointer points at the live
\* instance and a non-null pass pointer at the recorder of the open frame.
ApiCall(params, nulls, core) ==
    /\ api.proc = "running"
    /\ nulls \in SUBSET params
    /\ core \in CoreOutcomes
    /\ \A p \in {"b4d", "pass", "recorder"} \cap params :
          p \notin nulls => IF p = "b4d" THEN api.b4d ELSE api.recorder
    /\ UNCHANGED <<mgr, nextUuid, grp, builder, sets, objLive, allocLive, semLive,
                   last, trace, threads>>

b4d_init(nulls, core) ==
    /\ ApiCall({"surface"}, nulls, core)
    /\ \E r \in {EntryPoint("b4d_init", "b4d_init", <<"surface">>, <<>>, FALSE, nulls, core)} :
          api' = [ApiAfter("b4d_init", nulls, r)
                      EXCEPT !.b4d = IF r.end = "return" THEN TRUE ELSE @]

b4d_destroy(nulls, core) ==
    /\ ApiCall({"b4d"}, nulls, core)
    /\ \E r \in {EntryPoint("b4d_destroy", "b4d_destroy", <<"b4d">>, <<>>, FALSE, nulls, core)} :
          api' = [ApiAfter("b4d_destroy", nulls, r)
                      EXCEPT !.b4d = IF r.end = "return" THEN FALSE ELSE @]

\* The body logs the formats it was given (log::error!) before it hands them
\* to set_emulator_vertex_formats.
b4d_set_vertex_formats(nulls, core) ==
    /\ ApiCall({"b4d", "formats_ptr"}, nulls, core)
    /\ \E r \in {EntryPoint("b4d_set_vertex_formats", "b4d_set_vertex_formats",
                            <<"b4d", "formats_ptr">>, <<AEv("log_error", "Formats")>>,
                            FALSE, nulls, core)} :
          api' = ApiAfter("b4d_set_vertex_formats", nulls, r)

b4d_create_static_mesh(nulls, core) ==
    /\ ApiCall({"b4d", "data"} \cup MeshPointers, nulls, core)
    /\ \E r \in {EntryPoint("b4d_create_static_mesh", "b4d_create_static_mesh",
                            <<"b4d", "data">>, <<>>, TRUE, nulls, core)} :
          api' = ApiAfter("b4d_create_static_mesh", nulls, r)

b4d_destroy_static_mesh(nulls, core) ==
    /\ ApiCall({"b4d"}, nulls, core)
    /\ \E r \in {EntryPoint("b4d_destroy_static_mesh", "b4d_destroy_static_mesh",
                            <<"b4d">>, <<>>, FALSE, nulls, core)} :
          api' = ApiAfter("b4d_destroy_static_mesh", nulls, r)

\* try_start_frame returns a recorder (frame) or None, which is handed back
\* as a null pointer.
b4d_start_frame(nulls, core, frame) ==
    /\ ApiCall({"b4d"}, nulls, core)
    /\ \E r \in {EntryPoint("b4d_start_frame", "b4d_start_frame",
                            <<"b4d">>, <<>>, FALSE, nulls, core)} :
          api' = [ApiAfter("b4d_start_frame", nulls, r)
                      EXCEPT !.recorder = IF r.end = "return" THEN @ \/ frame ELSE @]

b4d_pass_set_model_view_matrix(nulls, core) ==
    /\ ApiCall({"pass", "matrix"}, nulls, core)
    /\ \E r \in {EntryPoint("b4d_pass_set_model_view_matrix",
                            "b4d_pass_set_model_view_matrix",
                            <<"pass", "matrix">>, <<>>, FALSE, nulls, core)} :
          api' = ApiAfter("b4d_pass_set_model_view_matrix", nulls, r)

\* The panic handler of this entry point logs the name of
\* b4d_pass_set_model_view_matrix.
b4d_pass_set_projection_matrix(nulls, core) ==
    /\ ApiCall({"pass", "matrix"}, nulls, core)
    /\ \E r \in {EntryPoint("b4d_pass_set_projection_matrix",
                            "b4d_pass_set_model_view_matrix",
                            <<"pass", "matrix">>, <<>>, FALSE, nulls, core)} :
          api' = ApiAfter("b4d_pass_set_projection_matrix", nulls, r)

b4d_pass_draw_static(nulls, core) ==
    /\ ApiCall({"pass"}, nulls, core)
    /\ \E r \in {EntryPoint("b4d_pass_draw_static", "b4d_pass_draw_static",
                            <<"pass">>, <<>>, FALSE, nulls, core)} :
          api' = ApiAfter("b4d_pass_draw_static", nulls, r)

b4d_pass_draw_immediate(nulls, core) ==
    /\ ApiCall({"pass", "data"} \cup MeshPointers, nulls, core)
    /\ \E r \in {EntryPoint("b4d_pass_draw_immediate", "b4d_pass_draw_immediate",
                            <<"pass", "data">>, <<>>, TRUE, nulls, core)} :
          api' = ApiAfter("b4d_pass_draw_immediate", nulls, r)

b4d_end_frame(nulls, core) ==
    /\ ApiCall({"recorder"}, nulls, core)
    /\ \E r \in {EntryPoint("b4d_end_frame", "b4d_end_frame",
                            <<"recorder">>, <<>>, FALSE, nulls, core)} :
          api' = [ApiAfter("b4d_end_frame", nulls, r)
                      EXCEPT !.recorder = IF r.end = "return" THEN FALSE ELSE @]

\* Every pointer parameter of the C API.
Pointers ==
    {"surface", "b4d", "formats_ptr", "data", "pass", "matrix", "recorder"}
        \cup MeshPointers

NextApi ==
    \E nulls \in SUBSET Pointers, core \in CoreOutcomes :
        \/ b4d_init(nulls, core)
        \/ b4d_destroy(nulls, core)
        \/ b4d_set_vertex_formats(nulls, core)
        \/ b4d_create_static_mesh(nulls, core)
        \/ b4d_destroy_static_mesh(nulls, core)
        \/ \E frame \in BOOLEAN : b4d_start_frame(nulls, core, frame)
        \/ b4d_pass_set_model_view_matrix(nulls, core)
        \/ b4d_pass_set_projection_matrix(nulls, core)
        \/ b4d_pass_draw_static(nulls, core)
        \/ b4d_pass_draw_immediate(nulls, core)
        \/ b4d_end_frame(nulls, core)

\* The C API specification: a foreign caller makes any calls with any
\* combination of null pointers until the process is terminated.
SpecApi == Init /\ [][NextApi]_vars

\* ---------------------------------------------------------------- threads
\* Two threads call into the same ObjectManager, each with a builder, a set
\* and a synchronization group of its own.  A thread is between two calls on
\* the device or the Allocator; every such call is one step (the device call
\* is synchronous, the Allocator takes its internal lock).
Threads == {1, 2}

\* The descriptions thread t queues: thread 1 works on buffers and views of
\* them, thread 2 on images and views of them.
SlotDescs(t) ==
    {Slot(IF t = 1 THEN "buffer" ELSE "image", NoDep)}
        \cup {Slot(IF t = 1 THEN "buffer_view" ELSE "image_view", dep) :
                  dep \in 0 .. MaxThreadSlots - 1}

\* The batches thread t builds: every view references an earlier slot of the
\* kind it is a view of.
ThreadBatches(t) ==
    {q \in UNION {[1 .. n -> SlotDescs(t)] : n \in 0 .. MaxThreadSlots} :
        \A i \in 0 .. Len(q) - 1 : IsView(q[i + 1].kind) => DependencyValid(q, i)}

\* A thread that is about to build the batch q.
ThreadStart(q) ==
    [pc |-> "create", objects |-> q, i |-> 0, sub |-> "object",
     data |-> <<>>, allocations |-> <<>>, k |-> 0, tr |-> <<>>]

\* The context of a call made by thread t: the device and the Allocator of
\* the manager, shared with the other thread, and the calls t made so far.
ThreadCtx(t) == [obj |-> objLive[1], alloc |-> allocLive[1], tr |-> threads[t].tr]

\* The shared state and the thread after a call that left the context c.
ThreadAfter(t, c, th) ==
    /\ objLive' = [objLive EXCEPT ![1] = c.obj]
    /\ allocLive' = [allocLive EXCEPT ![1] = c.alloc]
    /\ threads' = [threads EXCEPT ![t] = [th EXCEPT !.tr = c.tr]]

InitThreads ==
    /\ mgr = [m \in Managers |->
                IF m = 1 THEN [state |-> "alive", uuid |-> 1, refs |-> 3, handles |-> 1]
                         ELSE NoManager]
    /\ nextUuid = 2
    /\ grp = [g \in Groups |->
                IF g \in Threads THEN [state |-> "alive", mgr |-> 1, sem |-> g,
                                       refs |-> 2, handles |-> 1]
                                 ELSE NoGroup]
    /\ builder = NoBuilder
    /\ sets = [s \in Sets |-> NoSet]
    /\ objLive = [m \in Managers |-> {}]
    /\ allocLive = [m \in Managers |-> {}]
    /\ semLive = [m \in Managers |-> IF m = 1 THEN Threads ELSE {}]
    /\ last = [op |-> "create_resource_object_set", mgr |-> 1, group |-> 2,
               set |-> 0, batch |-> <<>>, failedAt |-> -1, ok |-> TRUE, id |-> 0,
               owner |-> 1, data |-> <<>>, allocations |-> <<>>]
    /\ trace = <<>>
    /\ api = ApiIdle
    /\ threads \in {th \in [Threads -> {ThreadStart(q) : q \in ThreadBatches(1) \cup ThreadBatches(2)}] :
                      /\ \A t \in Threads : th[t].objects \in ThreadBatches(t)
                      /\ Len(th[1].objects) + Len(th[2].objects) <= MaxThreadSlots}

\* The thread after the create of slot i ended with r: an error leaves the
\* loop (the `?`) and build_resource_objects starts abort_resource_objects at
\* the last slot; success moves on to slot i + 1.
ThreadCreated(t, r) ==
    LET th == threads[t]
    IN ThreadAfter(t,
           Log(r.ctx, Ev("create", th.i, r.objects[th.i + 1].handle, r.ok)),
           IF r.ok
           THEN [th EXCEPT !.objects = r.objects, !.i = @ + 1, !.sub = "object"]
           ELSE [th EXCEPT !.objects = r.objects, !.pc = "abort", !.sub = "object",
                           !.k = Len(th.objects) - 1])

\* create_resource_objects of thread t constructs the object of slot i, or
\* the device fails the construction: the whole create of a view, the first
\* half of the create of a buffer or image.
ThreadCreate(t) ==
    LET th == threads[t]
    IN /\ th.pc = "create" /\ th.sub = "object" /\ th.i < Len(th.objects)
       /\ \E inj \in {"none", "object"} :
            IF IsView(th.objects[th.i + 1].kind)
            THEN ThreadCreated(t, CreateView(th.objects, th.i, ThreadCtx(t), inj))
            ELSE IF inj = "object"
            THEN ThreadCreated(t, CreateMemoryObject(th.objects, th.i, ThreadCtx(t), inj))
            ELSE \E r \in {VkCreate(th.objects, th.i, ThreadCtx(t),
                                     FreshHandle(objLive[1]))} :
                     ThreadAfter(t, r.ctx,
                                 [th EXCEPT !.objects = r.objects, !.sub = "alloc"])
       /\ UNCHANGED <<mgr, nextUuid, grp, builder, sets, semLive, last, trace, api>>

\* The create of the buffer or image of slot i takes its memory from the
\* Allocator and binds it; the allocation or the bind can fail.
ThreadAllocate(t) ==
    LET th == threads[t]
        constructed == [objects |-> th.objects, ctx |-> ThreadCtx(t), ok |-> TRUE]
    IN /\ th.pc = "create" /\ th.sub = "alloc"
       /\ \E inj \in {"none", "alloc", "bind"} :
            ThreadCreated(t,
                IF inj = "alloc" THEN Failed(constructed)
                ELSE IF inj = "bind"
                THEN Failed(Allocate(constructed, th.i, FreshHandle(allocLive[1])))
                ELSE Allocate(constructed, th.i, FreshHandle(allocLive[1])))
       /\ UNCHANGED <<mgr, nextUuid, grp, builder, sets, semLive, last, trace, api>>

\* abort_resource_objects of thread t reaches slot k, in reverse: abort
\* destroys the object the slot had constructed, if any.
ThreadAbortObject(t) ==
    LET th == threads[t]
    IN /\ th.pc = "abort" /\ th.sub = "object" /\ th.k >= 0
       /\ ThreadAfter(t,
              AbortObject(th.objects[th.k + 1], th.k,
                          Log(ThreadCtx(t), Ev("abort", th.k, 0, TRUE))),
              [th EXCEPT !.sub = "memory"])
       /\ UNCHANGED <<mgr, nextUuid, grp, builder, sets, semLive, last, trace, api>>

\* abort of slot k frees the allocation the slot had acquired, if any.
ThreadAbortMemory(t) ==
    LET th == threads[t]
    IN /\ th.pc = "abort" /\ th.sub = "memory"
       /\ ThreadAfter(t, AbortMemory(th.objects[th.k + 1], th.k, ThreadCtx(t)),
                      [th EXCEPT !.sub = "object", !.k = @ - 1])
       /\ UNCHANGED <<mgr, nextUuid, grp, builder, sets, semLive, last, trace, api>>

\* build_resource_objects of thread t panics after the abort pass; unwinding
\* drops the builder and with it its handle on the group, which the caller
\* still holds.
ThreadPanic(t) ==
    LET th == threads[t]
    IN /\ th.pc = "abort" /\ th.k < 0
       /\ \E w \in {ReleaseGroup(World, t)} :
            /\ mgr' = w.mgr
            /\ grp' = w.grp
            /\ semLive' = w.semLive
       /\ threads' = [threads EXCEPT ![t] = [th EXCEPT !.pc = "panicked"]]
       /\ UNCHANGED <<nextUuid, builder, sets, objLive, allocLive, last, trace, api>>

\* build_resource_objects of thread t reduces the created batch: the set of
\* the thread exists.
ThreadReduce(t) ==
    LET th == threads[t]
    IN /\ th.pc = "create" /\ th.i = Len(th.objects)
       /\ \E r \in {reduce_resource_objects(th.objects, ThreadCtx(t))} :
            /\ sets' = [sets EXCEPT ![t] = [state |-> "alive", group |-> t,
                           data |-> r.data, allocations |-> r.allocations]]
            /\ threads' = [threads EXCEPT ![t] = [th EXCEPT !.pc = "built", !.tr = r.ctx.tr]]
       /\ UNCHANGED <<mgr, nextUuid, grp, builder, objLive, allocLive, semLive,
                      last, trace, api>>

\* drop(set) of thread t: destroy_resource_objects is given the data and the
\* allocations of the set.
ThreadDrop(t) ==
    LET th == threads[t]
    IN /\ th.pc = "built"
       /\ threads' = [threads EXCEPT ![t] =
                         [th EXCEPT !.pc = "destroy", !.data = sets[t].data,
                                    !.allocations = sets[t].allocations,
                                    !.k = Len(sets[t].data) - 1]]
       /\ sets' = [sets EXCEPT ![t] = NoSet]
       /\ UNCHANGED <<mgr, nextUuid, grp, builder, objLive, allocLive, semLive,
                      last, trace, api>>

\* Variant: the objects are destroyed in build order (the .rev() is missing).
ThreadDestroy_forward(t) ==
    LET th == threads[t]
        i == Len(th.data) - 1 - th.k
    IN /\ th.pc = "destroy" /\ th.k >= 0
       /\ ThreadAfter(t, DataDestroy(th.data[i + 1], i, ThreadCtx(t)),
                      [th EXCEPT !.k = @ - 1])
       /\ UNCHANGED <<mgr, nextUuid, grp, builder, sets, semLive, last, trace, api>>

\* destroy_resource_objects of thread t destroys the next object, in reverse.
ThreadDestroy(t) ==
    LET th == threads[t]
    IN /\ th.pc = "destroy" /\ th.k >= 0
       /\ ThreadAfter(t, DataDestroy(th.data[th.k + 1], th.k, ThreadCtx(t)),
                      [th EXCEPT !.k = @ - 1])
       /\ UNCHANGED <<mgr, nextUuid, grp, builder, sets, semLive, last, trace, api>>

\* destroy_resource_objects of thread t frees the next allocation.
ThreadFree(t) ==
    LET th == threads[t]
        f == IF th.pc = "destroy" THEN 0 ELSE th.k
    IN /\ \/ th.pc = "destroy" /\ th.k < 0
          \/ th.pc = "free"
       /\ f < Len(th.allocations)
       /\ ThreadAfter(t, AllocatorFree(th.allocations[f + 1], f, ThreadCtx(t)),
                      [th EXCEPT !.pc = "free", !.k = f + 1])
       /\ UNCHANGED <<mgr, nextUuid, grp, builder, sets, semLive, last, trace, api>>

\* The drop of the set of thread t ends with the drop of its group handle;
\* the caller still holds the group.
ThreadRelease(t) ==
    LET th == threads[t]
        f == IF th.pc = "destroy" THEN 0 ELSE th.k
    IN /\ \/ th.pc = "destroy" /\ th.k < 0
          \/ th.pc = "free"
       /\ f = Len(th.allocations)
       /\ \E w \in {ReleaseGroup(World, t)} :
            /\ mgr' = w.mgr
            /\ grp' = w.grp
            /\ semLive' = w.semLive
       /\ threads' = [threads EXCEPT ![t] = [th EXCEPT !.pc = "done"]]
       /\ UNCHANGED <<nextUuid, builder, sets, objLive, allocLive, last, trace, api>>

NextThreads ==
    \E t \in Threads :
        \/ ThreadCreate(t)
        \/ ThreadAllocate(t)
        \/ ThreadAbortObject(t)
        \/ ThreadAbortMemory(t)
        \/ ThreadPanic(t)
        \/ ThreadReduce(t)
        \/ ThreadDrop(t)
        \/ ThreadDestroy(t)
        \/ ThreadFree(t)
        \/ ThreadRelease(t)

\* The threads specification: each of the two threads builds its batch and
\* then destroys it, or fails to build it and aborts, their calls interleaved
\* in any order.
SpecThreads == InitThreads /\ [][NextThreads]_vars

\* ------------------------------------------------------------ properties
\* The calls named e of the operation executed last, in order.
Events(e) == SelectSeq(trace, LAMBDA x : x.ev = e)
\* The slots those calls were made on, in order.
SlotsOf(e) == [k \in 1 .. Len(Events(e)) |-> Events(e)[k].slot]
\* The handles or allocations those calls were made on.
ArgsOf(e) == {Events(e)[k].arg : k \in 1 .. Len(Events(e))}
\* How many of those calls were made on x.
CountOf(e, x) == Cardinality({k \in 1 .. Len(Events(e)) : Events(e)[k].arg = x})

BuildDone == last.op = "build"
BuildFailed == last.op = "build" /\ ~last.ok
BuildSucceeded == last.op = "build" /\ last.ok
BatchLen == Len(last.batch)

\* C1 as stated: when create of slot m fails, abort is invoked on exactly the
\* slots 0..m-1 and on no other slot, in the order m-1, ..., 0.
C1_AbortOnlyCreatedSlots ==
    BuildFailed => SlotsOf("abort") = Descending(last.failedAt)

\* C1 amended: when create of slot m fails, abort is invoked on every slot of
\* the batch, each once, in the strictly descending order n-1, ..., 0; the
\* slots 0..m-1 are thereby aborted in the order m-1, ..., 0.
C1_AbortAllSlotsDescending ==
    BuildFailed =>
        /\ SlotsOf("abort") = Descending(BatchLen)
        /\ SelectSeq(SlotsOf("abort"), LAMBDA i : i < last.failedAt)
               = Descending(last.failedAt)

\* A batch of three slots whose last create fails after two slots were created.
C1_Witness ==
    BuildFailed /\ BatchLen = 3 /\ last.failedAt = 2 /\ Len(Events("abort")) = 3

\* The allocations retained by set s.
RetainedBy(s) == {sets[s].allocations[k] : k \in 1 .. Len(sets[s].allocations)}

\* C2: every Allocation handed out during the create phase of a batch is
\* freed exactly once by the time the batch is aborted or the set destroyed:
\* a free is only ever made on a live allocation, after a failed build every
\* allocation handed out was freed once, after a successful build every
\* allocation handed out is retained by the set and none was freed, after a
\* destroy every retained allocation was freed once, and the allocations
\* live in the Allocator are those retained by the sets that are alive.
C2_AllocationsFreedExactlyOnce ==
    /\ \A k \in 1 .. Len(trace) : trace[k].ev = "free" => trace[k].ok
    /\ \A m \in Managers :
          allocLive[m] = UNION {RetainedBy(s) :
                                  s \in {t \in Sets : Alive(sets[t])
                                                      /\ grp[sets[t].group].mgr = m}}
    /\ BuildFailed => \A a \in ArgsOf("allocate") : CountOf("free", a) = 1
    /\ BuildSucceeded =>
          /\ ArgsOf("allocate") = RetainedBy(last.set)
          /\ Events("free") = <<>>
    /\ last.op = "destroy" =>
          /\ Len(Events("free")) = Len(last.allocations)
          /\ \A k \in 1 .. Len(last.allocations) :
                CountOf("free", last.allocations[k]) = 1

\* Slot 2 fails while binding its memory: three allocations were handed out,
\* two of them for the slots 0..1, and three are freed by the abort pass.
C2_Witness ==
    /\ BuildFailed
    /\ last.failedAt = 2
    /\ Len(Events("allocate")) = 3
    /\ Len(Events("free")) = 3

\* C3: build is all or nothing: it returns the data of all n queued objects
\* when every create succeeded, and panics, producing no set and no data,
\* when some create failed.
C3_BuildAllOrNothing ==
    BuildDone =>
        IF /\ Len(Events("create")) = BatchLen
           /\ \A k \in 1 .. Len(Events("create")) : Events("create")[k].ok
        THEN /\ last.ok
             /\ Len(last.data) = BatchLen
             /\ Alive(sets[last.set])
             /\ sets[last.set].data = last.data
        ELSE /\ ~last.ok
             /\ last.data = <<>>
             /\ last.set = 0
             /\ last.allocations = <<>>

\* The second of three creates fails: one object existed when the build failed.
C3_Witness ==
    BuildFailed /\ BatchLen = 3 /\ last.failedAt = 1 /\ Len(Events("create")) = 2

\* C4: destroying a set built from the slots 0..n-1 destroys the objects in
\* the order n-1, ..., 0, each once, and then frees every retained
\* allocation once; no free precedes an object destroy.
C4_DestroyReverseThenFree ==
    last.op = "destroy" =>
        LET n == Len(last.data)
            a == Len(last.allocations)
        IN /\ Len(trace) >= n + a
           /\ \A k \in 1 .. n :
                 /\ trace[k].ev = "destroy"
                 /\ trace[k].slot = n - k
                 /\ trace[k].arg = last.data[n - k + 1].handle
                 /\ trace[k].ok
           /\ \A k \in n + 1 .. n + a : trace[k].ev = "free" /\ trace[k].ok
           /\ {trace[k].arg : k \in n + 1 .. n + a}
                 = {last.allocations[k] : k \in 1 .. a}
           /\ \A k \in n + a + 1 .. Len(trace) : trace[k].ev \notin {"destroy", "free"}

\* A set of three objects, two of which own memory, is destroyed.
C4_Witness ==
    /\ last.op = "destroy"
    /\ Len(last.data) = 3
    /\ Len(last.allocations) = 2

\* The group the operation executed last ran on belongs to another manager.
Mismatched == last.op = "create_resource_object_set" /\ ~ManagerEq(last.owner, last.mgr)

\* C5 as stated: create_resource_object_set on manager B with a group of
\* manager A panics, returns no builder, and no device call (no object or
\* memory creation, no semaphore creation or destruction) is made as part
\* of the failing call.
C5_MismatchMakesNoDeviceCall ==
    Mismatched => ~last.ok /\ builder = NoBuilder /\ trace = <<>>

\* C5 amended: the call panics and returns no builder, and the panic is
\* raised before any device call; no object, memory or semaphore is created
\* by the failing call.  The one device call the failing call can make is
\* the destruction of the semaphore of the group passed, made through the
\* group's own manager while the panic unwinds, exactly when the handle
\* passed was the last handle to that group.
C5_MismatchPanics ==
    Mismatched =>
        /\ ~last.ok
        /\ builder = NoBuilder
        /\ IF Alive(grp[last.group])
           THEN trace = <<>>
           ELSE /\ Len(trace) = 1
                /\ trace[1].ev = "destroy_semaphore"
                /\ trace[1].slot = last.owner
                /\ trace[1].ok

\* Manager 2 is given the caller's only handle to a group of manager 1.
C5_Witness ==
    Mismatched /\ last.mgr = 2 /\ last.owner = 1 /\ ~Alive(grp[last.group])

\* The handles to group g the builder and the sets hold.
HeldInside(g) ==
    (IF builder.state = "open" /\ builder.group = g THEN 1 ELSE 0)
        + Cardinality({s \in Sets : Alive(sets[s]) /\ sets[s].group = g})

\* The handles to group g: the caller's, the builder's and the sets'.
Holders(g) == grp[g].handles + HeldInside(g)

\* C6: the semaphore of a group is destroyed exactly once, and only after
\* every set bound to the group completed destroy_resource_objects and every
\* other handle to the group was dropped: while the caller, the builder or a
\* set holds the group its semaphore is live, a destroy_semaphore is only
\* ever made on a live semaphore, it is the last call of the operation that
\* drops the last handle, and no semaphore outlives its group.
C6_SemaphoreDestroyedOnceAtLastDrop ==
    /\ \A g \in Groups :
          Alive(grp[g]) =>
              /\ grp[g].refs = Holders(g)
              /\ grp[g].refs > 0
              /\ grp[g].sem \in semLive[grp[g].mgr]
    /\ \A g \in Groups : ~Alive(grp[g]) => HeldInside(g) = 0
    /\ \A s \in Sets : Alive(sets[s]) => Alive(grp[sets[s].group])
    /\ \A m \in Managers :
          semLive[m] = {grp[g].sem : g \in {h \in Groups : Alive(grp[h]) /\ grp[h].mgr = m}}
    /\ \A k \in 1 .. Len(trace) :
          trace[k].ev = "destroy_semaphore" =>
              /\ trace[k].ok
              /\ k = Len(trace)
              /\ ~Alive(grp[last.group])

\* The caller dropped its handle first: dropping the set destroys the object,
\* frees its memory and only then destroys the semaphore of the group.
C6_Witness ==
    /\ last.op = "destroy"
    /\ Len(trace) = 3
    /\ trace[1].ev = "destroy"
    /\ trace[3].ev = "destroy_semaphore"

\* C7: two groups obtained from separate calls to
\* create_synchronization_group on the same manager are never equal while
\* both are alive, and every group is equal to itself.
C7_GroupsOfAManagerDistinct ==
    \A g, h \in Groups :
        Alive(grp[g]) /\ Alive(grp[h]) /\ grp[g].mgr = grp[h].mgr =>
            (GroupEq(g, h) <=> g = h)

\* Two groups of the same manager are alive.
C7_Witness ==
    \E g, h \in Groups :
        g # h /\ Alive(grp[g]) /\ Alive(grp[h]) /\ grp[g].mgr = grp[h].mgr

\* The handle create gave to slot i in the operation executed last.
CreatedHandles(i) ==
    {Events("create")[k].arg : k \in {j \in 1 .. Len(Events("create")) :
                                         Events("create")[j].slot = i}}

\* C8: the id returned for the k-th queued description is k, and in the set
\* built the entry with that id is the reduction of slot k: the data has n
\* entries and entry i has the kind of description i and the handle created
\* for slot i.
C8_IdLooksUpItsObject ==
    /\ last.op = "add" => last.id = Len(last.batch) - 1
    /\ BuildSucceeded =>
          /\ Len(last.data) = BatchLen
          /\ \A i \in 0 .. BatchLen - 1 :
                /\ last.data[i + 1].kind = last.batch[i + 1].kind
                /\ CreatedHandles(i) = {GetHandle(last.set, i)}

\* A set of three objects of which the first two differ in kind was built.
C8_Witness ==
    /\ BuildSucceeded
    /\ BatchLen = 3
    /\ last.batch[1].kind # last.batch[2].kind
    /\ GetHandle(last.set, 0) # GetHandle(last.set, 2)

\* Some view of the batch depends on an object created later than itself.
HasForwardReference(batch) ==
    \E k \in 0 .. Len(batch) - 1 :
        /\ IsView(batch[k + 1].kind)
        /\ batch[k + 1].dep > k
        /\ batch[k + 1].dep < Len(batch)

\* C9: a batch in which some object k depends on an object created later
\* than k is rejected: the build panics and produces no set, and no create
\* reads a slot that has not been created yet.
C9_ForwardReferenceRejected ==
    BuildDone =>
        /\ HasForwardReference(last.batch) => ~last.ok /\ last.set = 0
        /\ \A k \in 1 .. Len(Events("read")) :
              Events("read")[k].arg < Events("read")[k].slot /\ Events("read")[k].ok

\* Slot 1 is a view of slot 2; slot 0 had been created when the build failed.
C9_Witness ==
    /\ BuildFailed
    /\ BatchLen = 3
    /\ last.failedAt = 1
    /\ IsView(last.batch[2].kind)
    /\ last.batch[2].dep = 2
    /\ Len(Events("create")) = 2

\* C10: in every set built, the handle returned for every id of the batch
\* differs from the null handle.
C10_HandlesNotNull ==
    \A s \in Sets :
        Alive(sets[s]) =>
            \A id \in 0 .. Len(sets[s].data) - 1 : GetHandle(s, id) # NullHandle

\* A set with a buffer, a view of it and an image was built.
C10_Witness ==
    /\ BuildSucceeded
    /\ {last.batch[k].kind : k \in 1 .. BatchLen} = {"buffer", "buffer_view", "image"}
    /\ Alive(sets[last.set])

\* The events named e of the C API call made last, in order.
ApiEvents(e) == SelectSeq(api.call.tr, LAMBDA x : x.ev = e)
ApiCalled == api.call.fn # "none"

\* C11: a call of a foreign entry point with a null pointer argument (the
\* instance, surface, pass or recorder, matrix, mesh data or formats pointer,
\* or a null vertex or index data pointer inside the mesh description)
\* terminates the process instead of returning, and the operation behind the
\* entry point is not invoked for that call.
C11_NullPointerTerminates ==
    ApiCalled /\ api.call.nulls # {} =>
        /\ api.proc = "exited"
        /\ api.call.end = "exit"
        /\ api.call.tr[Len(api.call.tr)].ev = "exit"
        /\ ApiEvents("core") = <<>>
        /\ ApiEvents("return") = <<>>

\* b4d_pass_draw_immediate on an open frame with a mesh description whose
\* index data pointer alone is null: the conversion panicked, the process
\* exited.
C11_Witness ==
    /\ api.call.fn = "b4d_pass_draw_immediate"
    /\ api.call.nulls = {"index_data_ptr"}
    /\ ApiEvents("panic") # <<>>
    /\ api.proc = "exited"

\* C12: a panic raised inside the body of a foreign entry point, by the
\* boundary code or by the operation behind it, is caught at the entry point,
\* followed by an error log entry and then by the termination of the
\* process: the call never returns and nothing happens in between.
C12_PanicLogsThenTerminates ==
    \A k \in 1 .. Len(api.call.tr) :
        api.call.tr[k].ev = "panic" =>
            /\ Len(api.call.tr) = k + 3
            /\ api.call.tr[k + 1].ev = "catch"
            /\ api.call.tr[k + 2].ev = "log_error"
            /\ api.call.tr[k + 3].ev = "exit"
            /\ api.proc = "exited"
            /\ ApiEvents("return") = <<>>

\* The operation behind b4d_create_static_mesh was invoked and panicked.
C12_Witness ==
    /\ api.call.fn = "b4d_create_static_mesh"
    /\ ApiEvents("core") # <<>>
    /\ ApiEvents("panic") # <<>>
    /\ api.proc = "exited"

\* The position in the trace of the call e made on slot i; 0 if there is none.
PosOf(e, i) ==
    IF \E k \in 1 .. Len(trace) : trace[k].ev = e /\ trace[k].slot = i
    THEN Least({k \in 1 .. Len(trace) : trace[k].ev = e /\ trace[k].slot = i})
    ELSE 0

\* The calls a create makes on the device and the allocator.
CreateCalls == {"vk_create", "allocate", "read"}

\* C13: create_resource_objects invokes create on the slots one after the
\* other in ascending order from slot 0, each at most once: whatever the
\* create of slot i does happens after the create of every slot j < i has
\* completed successfully, the loop stops at the first failure, so no create
\* is invoked on a slot after the failing one, and without a failure every
\* slot is created.
C13_CreateAscendingStopsAtFailure ==
    BuildDone =>
        LET cs == Events("create")
        IN /\ SlotsOf("create") = Ascending(Len(cs))
           /\ \A k \in 1 .. Len(cs) - 1 : cs[k].ok
           /\ Len(cs) = IF last.ok THEN BatchLen ELSE last.failedAt + 1
           /\ ~last.ok => ~cs[Len(cs)].ok
           /\ \A l \in 1 .. Len(trace) :
                 trace[l].ev \in CreateCalls =>
                     /\ trace[l].slot < Len(cs)
                     /\ l < PosOf("create", trace[l].slot)
                     /\ \A j \in 0 .. trace[l].slot - 1 : PosOf("create", j) < l

\* The allocation of slot 1 of three buffers fails: slot 0 was created, the
\* object of slot 1 was constructed, create was never invoked on slot 2.
C13_Witness ==
    /\ BuildFailed
    /\ BatchLen = 3
    /\ last.failedAt = 1
    /\ SlotsOf("vk_create") = <<0, 1>>
    /\ SlotsOf("allocate") = <<0>>

\* The calls an abort makes on the device and the allocator.
AbortCalls == {"vk_destroy", "free"}

\* C14: when a create fails during build, abort runs on all n slots of the
\* batch, each once, in the order n-1, ..., 0, the failing slot and the slots
\* the create loop never reached included, and the abort pass is complete
\* when the build reports the failure: it starts after the failed create,
\* what the abort of a slot releases is released before the next slot is
\* aborted, and nothing the batch had acquired is live at the report.
C14_AbortPassCompleteBeforeFailure ==
    BuildFailed =>
        /\ Len(Events("abort")) = BatchLen
        /\ \A i \in 0 .. BatchLen - 1 :
              /\ PosOf("abort", i) > PosOf("create", last.failedAt)
              /\ i > 0 => PosOf("abort", i) < PosOf("abort", i - 1)
        /\ \A l \in 1 .. Len(trace) :
              trace[l].ev \in AbortCalls =>
                  /\ PosOf("abort", trace[l].slot) < l
                  /\ trace[l].slot > 0 => l < PosOf("abort", trace[l].slot - 1)
        /\ ArgsOf("vk_create") \cap objLive[last.mgr] = {}
        /\ ArgsOf("allocate") \cap allocLive[last.mgr] = {}
        /\ last.set = 0
        /\ Events("reduce") = <<>>

\* The first of three creates fails before anything was acquired: the abort
\* pass still visits the three slots and releases nothing.
C14_Witness ==
    /\ BuildFailed
    /\ BatchLen = 3
    /\ last.failedAt = 0
    /\ SlotsOf("abort") = <<2, 1, 0>>
    /\ Events("vk_destroy") = <<>>

\* The allocations freed by the operation executed last, in the order of the
\* calls.
FreedInOrder == [k \in 1 .. Len(Events("free")) |-> Events("free")[k].arg]

\* C15: when a set is destroyed its retained allocations are freed in reverse
\* creation order, the allocation of the highest slot first, after all its
\* objects have been destroyed.
C15_AllocationsFreedInReverse ==
    last.op = "destroy" =>
        /\ FreedInOrder = Reverse(last.allocations)
        /\ \A k, l \in 1 .. Len(trace) :
              trace[k].ev = "destroy" /\ trace[l].ev = "free" => k < l

\* The allocation handed out to slot i during the build executed last;
\* NoAlloc if the slot owns no memory.
AllocationOf(i) ==
    IF PosOf("allocate", i) = 0 THEN NoAlloc ELSE trace[PosOf("allocate", i)].arg

\* The slots of the batch that own memory, in ascending order.
MemorySlots ==
    SelectSeq(Ascending(BatchLen), LAMBDA i : ~IsView(last.batch[i + 1].kind))

\* C16 as stated: position i of the allocations of a built set is the
\* allocation of the slot whose data is at position i, for every batch.
C16_AllocationsParallelToData ==
    BuildSucceeded =>
        \A k \in 1 .. Len(last.allocations) :
            last.allocations[k] = AllocationOf(k - 1)

\* C16 amended: reduction collects one data entry per slot, at the position
\* of the slot, and the allocations of the slots that own memory in
\* ascending slot order, slots without an allocation contributing nothing:
\* position k of the allocations belongs to the k-th slot that owns memory.
C16_AllocationsOfMemorySlotsInOrder ==
    BuildSucceeded =>
        /\ Len(last.data) = BatchLen
        /\ \A i \in 0 .. BatchLen - 1 :
              /\ last.data[i + 1].kind = last.batch[i + 1].kind
              /\ last.data[i + 1].handle = trace[PosOf("create", i)].arg
        /\ Len(last.allocations) = Len(MemorySlots)
        /\ \A k \in 1 .. Len(MemorySlots) :
              last.allocations[k] = AllocationOf(MemorySlots[k])

\* A buffer, a view of it and an image: the allocation of slot 2 is at
\* position 1 of the allocations.
C16_Witness ==
    /\ BuildSucceeded
    /\ BatchLen = 3
    /\ last.batch[2].kind = "buffer_view"
    /\ last.batch[3].kind = "image"
    /\ Len(last.allocations) = 2
    /\ last.allocations[2] = AllocationOf(2)

\* C20: within one build_resource_objects call abort and reduce exclude each
\* other: when every create succeeded abort is invoked on no slot and reduce
\* on every slot exactly once; when a create failed reduce is invoked on no
\* slot; no slot is both aborted and reduced.
C20_AbortAndReduceExclusive ==
    BuildDone =>
        /\ IF \A k \in 1 .. Len(Events("create")) : Events("create")[k].ok
           THEN /\ Events("abort") = <<>>
                /\ SlotsOf("reduce") = Ascending(BatchLen)
           ELSE Events("reduce") = <<>>
        /\ \A i \in 0 .. BatchLen - 1 : PosOf("abort", i) = 0 \/ PosOf("reduce", i) = 0

\* An image, a buffer and a view of the image are built: reduce ran on the
\* three slots and abort on none.
C20_Witness ==
    /\ BuildSucceeded
    /\ BatchLen = 3
    /\ last.batch[3].kind = "image_view"
    /\ SlotsOf("reduce") = <<0, 1, 2>>
    /\ Events("abort") = <<>>

\* The groups, the builder and the sets created from manager m that exist.
GroupsOf(m) == {g \in Groups : Alive(grp[g]) /\ grp[g].mgr = m}
SetsOf(m) == {s \in Sets : Alive(sets[s]) /\ sets[s].group \in GroupsOf(m)}

\* C18: the internal state of an ObjectManager is torn down only after every
\* synchronization group and every resource object set created from it is
\* gone, in whatever order the caller drops its manager, group and set
\* handles: while a group or a set of the manager exists, or anything is live
\* on its device or in its Allocator, the manager is alive; every semaphore
\* is destroyed, and every set's objects and allocations are destroyed, on a
\* manager that is alive; a teardown is the last thing a drop does.
C18_ManagerOutlivesGroupsAndSets ==
    /\ \A m \in Managers :
          mgr[m].state # "alive" =>
              /\ GroupsOf(m) = {} /\ SetsOf(m) = {}
              /\ semLive[m] = {} /\ objLive[m] = {} /\ allocLive[m] = {}
    /\ \A g \in Groups : Alive(grp[g]) => mgr[grp[g].mgr].state = "alive"
    /\ \A m \in Managers :
          mgr[m].state = "alive" => mgr[m].refs = mgr[m].handles + Cardinality(GroupsOf(m))
    /\ \A k \in 1 .. Len(trace) :
          trace[k].ev \in {"destroy_semaphore", "destroy", "free"} => trace[k].ok
    /\ \A m \in Managers :
          mgr[m].state = "dead" => mgr[m].refs = 0 /\ mgr[m].handles = 0

\* The caller dropped its manager handle and its group handle before the
\* set: the drop of the set destroyed the objects and the semaphore on the
\* live manager and tore the manager down last.
C18_Witness ==
    /\ last.op = "destroy"
    /\ Len(last.data) > 0
    /\ mgr[last.mgr].state = "dead"
    /\ Len(trace) > 1
    /\ trace[Len(trace)].ev = "destroy_semaphore"
    /\ trace[Len(trace)].ok

\* C19: ObjectManager equality is identity based: a handle is equal to itself
\* and to every clone of itself, handles obtained from two separate
\* ObjectManager::new calls are never equal, and the ownership check of
\* create_resource_object_set accepts exactly the groups created by the
\* manager it is called on (through any of its handles).
C19_ManagerEqualityIsIdentity ==
    /\ \A a, b \in Managers \ FreeManagers : ManagerEq(a, b) <=> a = b
    /\ last.op = "clone" => ManagerEq(last.id, last.mgr)
    /\ last.op = "create_resource_object_set" => (last.ok <=> last.owner = last.mgr)

\* A handle of the second of two managers was cloned.
C19_Witness ==
    /\ last.op = "clone"
    /\ last.mgr = 2
    /\ mgr[1].state # "none"
    /\ mgr[2].handles = 2

\* The calls of kind e thread t has made, in order.
ThreadEvents(t, e) == SelectSeq(threads[t].tr, LAMBDA x : x.ev = e)

\* The arguments of the calls of kind e thread t has made.
ThreadArgs(t, e) == {threads[t].tr[k].arg : k \in {l \in 1 .. Len(threads[t].tr) :
                                                       threads[t].tr[l].ev = e}}

\* The objects and the allocations thread t acquired and has not released.
HeldObjects(t) ==
    ThreadArgs(t, "vk_create") \ (ThreadArgs(t, "destroy") \cup ThreadArgs(t, "vk_destroy"))
HeldAllocations(t) == ThreadArgs(t, "allocate") \ ThreadArgs(t, "free")

\* The calls and the completion of a create.
CreatePhase == CreateCalls \cup {"create"}

\* The build of thread t failed: a create returned an error.
ThreadFailed(t) == threads[t].pc \in {"abort", "panicked"}

\* Thread t creates its slots in ascending order from slot 0: the creates
\* complete in the order 0, 1, ..., only the last one can have failed, and
\* when a call is made for slot s exactly the creates of the slots before s
\* have completed.  After a failed create it aborts every slot in reverse
\* order; after a build it destroys the objects in reverse order.
ThreadOrder(t) ==
    LET tr == threads[t].tr
        cs == ThreadEvents(t, "create")
        ds == ThreadEvents(t, "destroy")
        bs == ThreadEvents(t, "abort")
        n == Len(threads[t].objects)
    IN /\ \A k \in 1 .. Len(cs) : cs[k].slot = k - 1
       /\ \A k \in 1 .. Len(cs) - 1 : cs[k].ok
       /\ ThreadFailed(t) <=> Len(cs) > 0 /\ ~cs[Len(cs)].ok
       /\ \A l \in 1 .. Len(tr) :
             tr[l].ev \in CreateCalls =>
                 /\ tr[l].ok
                 /\ Cardinality({m \in 1 .. l - 1 : tr[m].ev = "create"}) = tr[l].slot
                 /\ \A m \in 1 .. l - 1 : tr[m].ev \in CreatePhase /\ tr[m].ok
       /\ \A k \in 1 .. Len(bs) : bs[k].slot = n - k
       /\ Len(bs) > 0 => ThreadFailed(t) /\ Len(ds) = 0
       /\ threads[t].pc = "panicked" => Len(bs) = n
       /\ \A k \in 1 .. Len(ds) : ds[k].slot = n - k /\ ds[k].ok
       /\ threads[t].pc \in {"built", "destroy", "free", "done"} => Len(cs) = n
       /\ Len(ds) > 0 => threads[t].pc \in {"destroy", "free", "done"}
       /\ threads[t].pc \in {"free", "done"} => Len(ds) = n

\* Every allocation thread t took is in its set once and is freed once, and
\* every call that releases an object or an allocation releases a live one.
ThreadAllocations(t) ==
    LET as == ThreadEvents(t, "allocate")
        fs == ThreadEvents(t, "free")
        vs == ThreadEvents(t, "vk_destroy")
    IN /\ \A k \in 1 .. Len(fs) : fs[k].ok
       /\ \A k \in 1 .. Len(vs) : vs[k].ok
       /\ \A k, l \in 1 .. Len(fs) : fs[k].arg = fs[l].arg => k = l
       /\ \A k \in 1 .. Len(fs) : \E l \in 1 .. Len(as) : as[l].arg = fs[k].arg
       /\ threads[t].pc = "built" =>
             /\ Len(sets[t].allocations) = Len(as)
             /\ \A k \in 1 .. Len(as) : sets[t].allocations[k] = as[k].arg
             /\ \A k, l \in 1 .. Len(as) : as[k].arg = as[l].arg => k = l
       /\ threads[t].pc \in {"done", "panicked"} =>
             /\ Len(fs) = Len(as)
             /\ Len(ThreadEvents(t, "destroy")) + Len(vs)
                    = Len(ThreadEvents(t, "vk_create"))

\* C17: under any interleaving of two threads that each build and later
\* destroy a batch of their own through the same manager (or fail to build it
\* and abort), each thread sees its own ascending create order and reverse
\* destroy order, every allocation is owned by exactly one thread's set and
\* is freed exactly once, and no call of a thread touches an object or an
\* allocation of the other thread: what the two threads hold is disjoint and
\* is exactly what is live on the device and in the Allocator.
C17_ThreadsKeepTheirOwnBatches ==
    LET o1 == HeldObjects(1)
        o2 == HeldObjects(2)
        a1 == HeldAllocations(1)
        a2 == HeldAllocations(2)
    IN /\ \A t \in Threads : ThreadOrder(t) /\ ThreadAllocations(t)
       /\ o1 \cap o2 = {}
       /\ a1 \cap a2 = {}
       /\ objLive[1] = o1 \cup o2
       /\ allocLive[1] = a1 \cup a2
       /\ \A t \in Threads :
             sets[t].state = "alive" =>
                 /\ {sets[t].allocations[k] : k \in 1 .. Len(sets[t].allocations)}
                        = IF t = 1 THEN a1 ELSE a2
                 /\ {sets[t].data[k].handle : k \in 1 .. Len(sets[t].data)}
                        = IF t = 1 THEN o1 ELSE o2

\* Both threads built and destroyed their batches and their calls were
\* interleaved: thread 1 built a buffer and a view of it, thread 2 an image;
\* the image of thread 2 was constructed between the two objects of thread 1,
\* and thread 2 took its allocation before thread 1 took its own.
C17_Witness ==
    /\ \A t \in Threads : threads[t].pc = "done"
    /\ Len(threads[1].objects) = 2 /\ Len(threads[2].objects) = 1
    /\ threads[1].objects[1].kind = "buffer" /\ threads[1].objects[1].handle = 1
    /\ threads[1].objects[2].kind = "buffer_view" /\ threads[1].objects[2].handle = 3
    /\ threads[2].objects[1].kind = "image" /\ threads[2].objects[1].handle = 2
    /\ threads[2].objects[1].alloc = 1 /\ threads[1].objects[1].alloc = 2
    /\ Len(ThreadEvents(1, "destroy")) = 2 /\ Len(ThreadEvents(2, "free")) = 1
    /\ objLive[1] = {} /\ allocLive[1] = {}

====
